---- MODULE Spec2Model ----
(***************************************************************************)
(* A model of coba (src/src/coba/__init__.py): a screen-scraping client   *)
(* of a banking portal.  One sequential caller drives one agent: the      *)
(* portal (the environment) chooses the page every fetch and every form   *)
(* submission produces, and the rows of every table that is read.         *)
(*                                                                         *)
(* A page is a record of the features the code looks at in it.  A label  *)
(* is the sequence of its tokens, and a value scraped from a cell is a    *)
(* record [t |-> type, v |-> text], so that wordize and the coercions are *)
(* modelled by what they do.                                              *)
(***************************************************************************)
EXTENDS Integers, Sequences, FiniteSets, TLC

VARIABLES
    pc,        \* position of the caller's thread in the code
    op,        \* the public operation the caller invoked
    err,       \* the exception that ended the operation, NoErr if none
    retval,    \* the value the operation returned
    contents,  \* self.browser.contents (and .url): the page the browser is on
    nav,       \* navigate: its argument, its return position, whether it logged in
    lg,        \* login: its arguments and the local otp
    cookie,    \* cookiefile setting and the writes of the cookie store
    loc,       \* the arguments and locals of the operation invoked
    out,       \* what a generator has yielded so far
    checked,   \* check_for_errors has accepted the page the browser is on (history)
    last       \* the last network or prompt operation of this call (history)

vars == <<pc, op, err, retval, contents, nav, lg, cookie, loc, out, checked, last>>

\* Bounds of the model: the rule rows of one history, the largest maxpages
\* asked.
MaxRules == 2
MaxPagesArg == 2
\* the rows of one accounts table
MaxAccRows == 5
\* The longest text given to wordize, in tokens.
MaxLen == 4

NoErr == [type |-> "none", msg |-> ""]
NoLoc == [none |-> TRUE]
Exc(t, m) == [type |-> t, msg |-> m]
None == "None"

----------------------------------------------------------------------------
(* Module constants and the arguments of pay_from *)

PAY_STATEMENT_BALANCE == "T"
PAY_CURRENT_BALANCE == "C"
PAY_MINIMUM_BALANCE == "M"
payopts == {PAY_STATEMENT_BALANCE, PAY_CURRENT_BALANCE, PAY_MINIMUM_BALANCE}

\* The amounts a caller passes: a payment policy, a number, something else.
Amounts == payopts \cup {"25.00", "abc"}
\* float(amount) succeeds
IsNumber(a) == a = "25.00"

\* The keys payment_type_map gets from the labels of the radio buttons of
\* the page ("other" stands for the key None, "unknown" for a button whose
\* label matches none of the four texts and gets no key).
OptionSets ==
    {{}, {"unknown"}, {"other"}, {PAY_STATEMENT_BALANCE},
     payopts, payopts \cup {"other"}}
payment_type_map(page) == page.options \ {"unknown"}

----------------------------------------------------------------------------
(* Pages *)

\* The elements of class "coaching" of a page, in document order: a link to
\* an announcement page, or anything else (an application error banner).
Banners == {<<>>, <<"announcement">>, <<"error">>, <<"announcement", "error">>}

\* The banners of the pages that are only fetched.
PageBanners == {<<>>, <<"error">>}

BlankPage ==
    [of |-> "blank", auth_form |-> FALSE, coaching |-> <<>>, otp |-> FALSE,
     ctl |-> TRUE, link |-> FALSE, options |-> {}, tables |-> 0,
     total |-> FALSE, step |-> "none", verify |-> FALSE, next |-> FALSE]

\* The login form, which the portal serves instead of any page once the
\* session has expired (ctl: the form and its three controls are there).
LoginFormPages ==
    {[BlankPage EXCEPT !.of = "login", !.auth_form = TRUE, !.ctl = c] :
        c \in BOOLEAN}

\* What the portal shows after a step of the login sequence: the login form
\* again, a page of the OTP challenge (it holds 'EnterActivationCode'; ctl:
\* the link and the controls the next step of the challenge needs are
\* there), or the page a fresh session starts on (the accounts list or some
\* other landing page).
LoginStepPages ==
    {[BlankPage EXCEPT !.of = o, !.auth_form = (o = "login"), !.coaching = b,
                       !.ctl = FALSE, !.link = (o = "accounts"),
                       !.tables = IF o = "accounts" THEN 1 ELSE 0] :
        o \in {"login", "landing", "accounts"}, b \in Banners}
    \cup
    {[BlankPage EXCEPT !.of = "otp", !.otp = TRUE, !.coaching = b, !.ctl = c] :
        b \in Banners, c \in BOOLEAN}

\* The page behind each URL the code opens while the session is live.
Resource(url) ==
    CASE url = "accounts" ->
           {[BlankPage EXCEPT !.of = url, !.coaching = b, !.tables = n,
                              !.link = TRUE] :
               b \in PageBanners, n \in 0..2}
      [] url = "login" -> LoginFormPages \cup
           {[BlankPage EXCEPT !.of = "landing", !.ctl = FALSE]}
      [] url \in {"payment", "transfer"} ->
           {[BlankPage EXCEPT !.of = url, !.coaching = b, !.link = l] :
               b \in PageBanners, l \in BOOLEAN}
      [] url = "fund" ->
           {[BlankPage EXCEPT !.of = url, !.coaching = b, !.options = o,
                              !.ctl = c] :
               b \in PageBanners, o \in OptionSets, c \in BOOLEAN}
      [] url = "history" ->
           {[BlankPage EXCEPT !.of = url, !.coaching = b, !.tables = n,
                              !.next = x] :
               b \in PageBanners, n \in {1, 2}, x \in BOOLEAN}
      [] url = "transfer_form" ->
           {[BlankPage EXCEPT !.of = url, !.coaching = b, !.ctl = c] :
               b \in PageBanners, c \in BOOLEAN}
      [] OTHER ->
           {[BlankPage EXCEPT !.of = url, !.coaching = b] : b \in PageBanners}

\* browser.open(url): the page of the URL, or the login form when the
\* session has expired.
Served(url) == Resource(url) \cup LoginFormPages

----------------------------------------------------------------------------
(* ChaseOnlineBankingAgent.check_for_errors, save_cookies *)

\* soup.find(class_='coaching') is the first such element; an announcement
\* link is ignored, anything else raises ChaseOnlineBankingError.
check_for_errors(page) ==
    IF page.coaching # <<>> /\ Head(page.coaching) # "announcement"
    THEN "raise" ELSE "ok"

BankingError == Exc("ChaseOnlineBankingError", "coaching")

\* (a save that writes nothing)
save_cookies_skipped(c) == c

\* self.cookiejar.save(self.cookiefile, ...) when a cookie file is configured
save_cookies(c) ==
    IF c.file THEN [c EXCEPT !.written = TRUE, !.fresh = TRUE] ELSE c

\* Any fetch or submission changes the jar in memory: the file is stale.
Stale(c) == [c EXCEPT !.fresh = FALSE]

Raise(e) == /\ pc' = "raised"
            /\ err' = e

Log(kind, what) == last' = <<kind, what>>

\* A fetch or a submission: the browser is on page p, which nothing has
\* checked yet, and the cookie jar in memory is ahead of the file.
Load(p, kind, what) ==
    /\ contents' = p
    /\ checked' = FALSE
    /\ cookie' = Stale(cookie)
    /\ Log(kind, what)

----------------------------------------------------------------------------
(* ChaseOnlineBankingAgent.login *)

\* The otp argument of login, and what the prompt or the callback may give
\* back: raw_input always returns a string, a callback may return None.
OtpArgs == {None, "", "123456"}
PromptValues(prompt) ==
    {"", " ", "123456", " 123456 "} \cup
    (IF prompt = "callback" THEN {None} ELSE {})

\* Python truth of a string or None, and str.strip().
Truthy(s) == s \notin {None, ""}
Strip(s) == CASE s = " " -> ""
              [] s = " 123456 " -> "123456"
              [] OTHER -> s

LoginArgs(from, otp, prompt) ==
    [from |-> from, otp |-> otp, prompt |-> prompt, sent |-> None]

\* browser.open(chasemobileloginurl); getControl(name='auth_userId') and
\* getForm(id='auth_form') raise LookupError on a page without them.
login_open ==
    /\ pc = "login"
    /\ \E p \in Resource("login") :
          /\ Load(p, "open", "login")
          /\ IF p.ctl /\ p.auth_form
             THEN pc' = "login_submit" /\ err' = err
             ELSE Raise(Exc("LookupError", "auth_userId"))
    /\ UNCHANGED <<loc, out, op, retval, nav, lg>>

\* username and password filled in, login_form.submit()
login_submit ==
    /\ pc = "login_submit"
    /\ \E p \in LoginStepPages : Load(p, "submit", "credentials")
    /\ pc' = "login_check"
    /\ UNCHANGED <<loc, out, op, err, retval, nav, lg>>

\* (mutant) the code passed to login is not looked at: with the marker on
\* the page, delivery of a code is always requested
login_check_unsupplied ==
    /\ pc = "login_check"
    /\ IF check_for_errors(contents) = "raise"
       THEN /\ Raise(BankingError)
            /\ checked' = checked
       ELSE /\ checked' = TRUE
            /\ err' = err
            /\ pc' = IF contents.otp THEN "login_request" ELSE "login_finish"
    /\ UNCHANGED <<loc, out, op, retval, contents, nav, lg, cookie, last>>

\* self.check_for_errors(), then the test for the OTP challenge
login_check ==
    /\ pc = "login_check"
    /\ IF check_for_errors(contents) = "raise"
       THEN /\ Raise(BankingError)
            /\ checked' = checked
       ELSE /\ checked' = TRUE
            /\ err' = err
            /\ pc' = IF contents.otp
                     THEN IF Truthy(lg.otp) THEN "login_have"
                          ELSE "login_request"
                     ELSE "login_finish"
    /\ UNCHANGED <<loc, out, op, retval, contents, nav, lg, cookie, last>>

\* otp was passed in: getLink('Already Have').click()
login_have ==
    /\ pc = "login_have"
    /\ IF contents.ctl
       THEN /\ \E p \in LoginStepPages : Load(p, "click", "already_have")
            /\ pc' = "login_have_submit"
            /\ err' = err
       ELSE /\ Raise(Exc("LookupError", "Already Have"))
            /\ UNCHANGED <<contents, last, cookie, checked>>
    /\ UNCHANGED <<loc, out, op, retval, nav, lg>>

\* fill_otp(); fill_password(); getControl(name='Next').click()
login_have_submit ==
    /\ pc = "login_have_submit"
    /\ IF contents.ctl
       THEN /\ \E p \in LoginStepPages : Load(p, "submit", "otp")
            /\ lg' = [lg EXCEPT !.sent = lg.otp]
            /\ pc' = "login_finish"
            /\ err' = err
       ELSE /\ Raise(Exc("LookupError", "auth_otp"))
            /\ UNCHANGED <<contents, last, cookie, checked, lg>>
    /\ UNCHANGED <<loc, out, op, retval, nav>>

\* no otp: getControl(name='Next').click() asks for the delivery choices
login_request ==
    /\ pc = "login_request"
    /\ IF contents.ctl
       THEN /\ \E p \in LoginStepPages : Load(p, "submit", "delivery")
            /\ pc' = "login_deliver"
            /\ err' = err
       ELSE /\ Raise(Exc("LookupError", "Next"))
            /\ UNCHANGED <<contents, last, cookie, checked>>
    /\ UNCHANGED <<loc, out, op, retval, nav, lg>>

\* getLink(otp_link_substring); browser.open(verification_link.url)
login_deliver ==
    /\ pc = "login_deliver"
    /\ IF contents.ctl
       THEN /\ \E p \in LoginStepPages : Load(p, "open", "delivery")
            /\ pc' = "login_prompt"
            /\ err' = err
       ELSE /\ Raise(Exc("LookupError", "otp_link_substring"))
            /\ UNCHANGED <<contents, last, cookie, checked>>
    /\ UNCHANGED <<loc, out, op, retval, nav, lg>>

\* otp = raw_input(...) or otp_prompt_call(); a true value is stripped
login_prompt ==
    /\ pc = "login_prompt"
    /\ \E code \in PromptValues(lg.prompt) :
          /\ lg' = [lg EXCEPT !.otp = IF Truthy(code) THEN Strip(code) ELSE code]
          /\ pc' = IF Truthy(code) THEN "login_otp_submit" ELSE "login_finish"
    /\ Log("prompt", lg.prompt)
    /\ UNCHANGED <<loc, out, op, err, retval, contents, nav, cookie, checked>>

\* fill_otp(); fill_password(); getControl(name='Next').click()
login_otp_submit ==
    /\ pc = "login_otp_submit"
    /\ IF contents.ctl
       THEN /\ \E p \in LoginStepPages : Load(p, "submit", "otp")
            /\ lg' = [lg EXCEPT !.sent = lg.otp]
            /\ pc' = "login_finish"
            /\ err' = err
       ELSE /\ Raise(Exc("LookupError", "auth_otp"))
            /\ UNCHANGED <<contents, last, cookie, checked, lg>>
    /\ UNCHANGED <<loc, out, op, retval, nav>>

\* (mutant) login ends without its final check_for_errors()
login_finish_unchecked ==
    /\ pc = "login_finish"
    /\ cookie' = save_cookies(cookie)
    /\ pc' = IF lg.from = "navigate" THEN "navigate_save" ELSE "returned"
    /\ UNCHANGED <<loc, out, op, err, retval, contents, nav, lg, checked, last>>

\* self.save_cookies(); self.check_for_errors(); and the return to the
\* caller of login, which is navigate or the user.
login_finish ==
    /\ pc = "login_finish"
    /\ cookie' = save_cookies(cookie)
    /\ IF check_for_errors(contents) = "raise"
       THEN /\ Raise(BankingError)
            /\ checked' = checked
       ELSE /\ checked' = TRUE
            /\ err' = err
            /\ pc' = IF lg.from = "navigate" THEN "navigate_save" ELSE "returned"
    /\ UNCHANGED <<loc, out, op, retval, contents, nav, lg, last>>

----------------------------------------------------------------------------
(* ChaseOnlineBankingAgent.navigate *)

NavArgs(url, ret) ==
    [url |-> url, ret |-> ret, login |-> FALSE]

\* A call of self.agent.navigate(url) that continues at position ret.
CallNavigate(url, ret) ==
    /\ nav' = NavArgs(url, ret)
    /\ pc' = "navigate"
    /\ err' = err

NoNav == NavArgs("none", "none")
NoLogin == LoginArgs("caller", None, "stdin")

\* self.browser.open(url); if soup.find(id='auth_form'): self.login()
navigate_open ==
    /\ pc = "navigate"
    /\ \E p \in Served(nav.url) :
          /\ Load(p, "open", nav.url)
          /\ IF p.auth_form
             THEN /\ pc' = "login"
                  /\ lg' = LoginArgs("navigate", None, "stdin")
                  /\ nav' = [nav EXCEPT !.login = TRUE]
             ELSE /\ pc' = "navigate_save"
                  /\ UNCHANGED <<lg, nav>>
    /\ UNCHANGED <<loc, out, op, err, retval>>

\* self.save_cookies(); return self.browser.contents.  The frames of
\* navigate and login are kept for inspection after a call made by the user
\* and dropped after a call made by another method.
navigate_return ==
    /\ pc = "navigate_save"
    /\ cookie' = save_cookies(cookie)
    /\ pc' = nav.ret
    /\ IF nav.ret \in {"returned", "idle"}
       THEN UNCHANGED <<nav, lg>>
       ELSE nav' = NoNav /\ lg' = NoLogin
    /\ UNCHANGED <<loc, out, op, err, retval, contents, checked, last>>

----------------------------------------------------------------------------
(* wordize, and the coercion of a cell's text *)

\* A text is a sequence of tokens: a run of letters and digits (a word), or
\* one character that is neither.
Specials == {" ", ":", "/", "-", "_", ".", "#"}
IsAlnum(t) == t \notin Specials

\* str.lower(), on the words that have capitals here
Lower(t) ==
    CASE t = "Available" -> "available"
      [] t = "Credit" -> "credit"
      [] t = "Balance" -> "balance"
      [] t = "Date" -> "date"
      [] t = "Amount" -> "amount"
      [] t = "Name" -> "name"
      [] t = "Memo" -> "memo"
      [] t = "Description" -> "description"
      [] t = "A" -> "a"
      [] OTHER -> t

LowerAll(s) == [i \in DOMAIN s |-> Lower(s[i])]

\* the class [a-z0-9_-] of the first regular expression
Kept(t) == IsAlnum(t) \/ t \in {"_", "-"}

RECURSIVE SkipRun(_)
SkipRun(s) == IF s # <<>> /\ ~Kept(Head(s)) THEN SkipRun(Tail(s)) ELSE s

\* re.sub('[^a-z0-9_-]+', '_', s)
RECURSIVE Collapse(_)
Collapse(s) ==
    IF s = <<>> THEN <<>>
    ELSE IF Kept(Head(s)) THEN <<Head(s)>> \o Collapse(Tail(s))
    ELSE <<"_">> \o Collapse(SkipRun(s))

\* re.sub('\b_|_\b', '', s): "_" is a word character and "-" is not, so an
\* underscore goes when it is first, last, or next to a "-".
AtBoundary(s, i) ==
    \/ i = 1
    \/ i = Len(s)
    \/ s[i - 1] = "-"
    \/ s[i + 1] = "-"

RECURSIVE TrimFrom(_, _)
TrimFrom(s, i) ==
    IF i > Len(s) THEN <<>>
    ELSE (IF s[i] = "_" /\ AtBoundary(s, i) THEN <<>> ELSE <<s[i]>>)
         \o TrimFrom(s, i + 1)

wordize(text) == TrimFrom(Collapse(LowerAll(text)), 1)

\* A value: a string, a Decimal, a datetime or None.
Val(t, v) == [t |-> t, v |-> v]
NoneV == Val("none", "")

\* The texts of the right-hand cells (already stripped).
StartsWithDollar(v) == v \in {"$5.00", "-$12.00", "$1,234.56"}
\* decimal.Decimal(re.sub('[^0-9.-]+', '', value))
ToDecimal(v) ==
    Val("decimal", CASE v = "$5.00" -> "5.00"
                     [] v = "-$12.00" -> "-12.00"
                     [] v = "$1,234.56" -> "1234.56")
HasSlash(v) == v \in {"01/01/2001", "01/02/2001", "n/a"}
\* m, d, y = map(int, value.split('/')); datetime.datetime(y, m, d)
ParsesAsDate(v) == v \in {"01/01/2001", "01/02/2001"}
\* The day a datetime stands for, and the day of a date field or of now.
Day(v) == CASE v = "01/01/2001" -> 1
            [] v = "01/02/2001" -> 2

\* A row of a table: the number of its cells; for a row of one cell its id,
\* the href of its link, its text and whether it holds a rule; for a row of
\* two cells the text of each.
Row1(id, href, text, hr) ==
    [cols |-> 1, id |-> id, href |-> href, text |-> text, hr |-> hr,
     left |-> <<>>, right |-> ""]
Row2(left, right) ==
    [cols |-> 2, id |-> None, href |-> None, text |-> "", hr |-> FALSE,
     left |-> left, right |-> right]
\* a row of header cells only: row.find_all('td') is empty
HeaderRow == [Row2(<<>>, "") EXCEPT !.cols = 0]
HrRow == Row1(None, None, "", TRUE)

----------------------------------------------------------------------------
(* ChaseBankAccount.transactions *)

\* datetime.datetime(3000, 1, 1) and datetime.datetime(1, 1, 1), as days
THROUGH_DEFAULT == 3000
\* datetime.datetime.now(): a day after every date of the history
Today == 3
SINCE_DEFAULT == 1

Fields(class) ==
    IF class = "debit" THEN {"name", "date", "amount", "balance"}
    ELSE {"name", "date", "type", "id", "amount", "memo"}

\* row_key_map
row_key_map(key) ==
    CASE key = <<"balance">> -> "balance"
      [] key = <<"transaction", "_", "date">> -> "date"
      [] key = <<"date">> -> "date"
      [] key = <<"type">> -> "type"
      [] key = <<"memo", "_", "description">> -> "memo"
      [] key = <<"transaction", "_", "number">> -> "id"
      [] key = <<"debit", "_", "credit", "_", "amount">> -> "amount"
      [] key = <<"debit", "_", "credit">> -> "amount"
      [] OTHER -> None

AllFields == Fields("debit") \cup Fields("credit")

\* dict(constructor_defaults): every field of the class is None
constructor_defaults(class) ==
    [f \in AllFields |-> NoneV]

\* The rows the history table may hold.
TxRows ==
    {Row1(None, None, "COFFEE", FALSE), HrRow, HeaderRow,
     Row2(<<"Balance">>, "$5.00"), Row2(<<"Amount">>, "$5.00"),
     Row2(<<"Balance">>, "--"), Row2(<<"Memo", " ", "Description">>, "")}
    \cup {Row2(<<"Date">>, v) :
            v \in {"01/01/2001", "01/02/2001", "Pending", "n/a"}}

\* The rows the history of an account of each class is drawn from: the
\* history of a debit account has no memo row and its balance cell is the
\* placeholder "--"; a balance row in the history of a credit account
\* holds an amount (and is a field its transaction class does not take).
TxRowsOf(class) ==
    TxRows \ (IF class = "debit"
              THEN {Row2(<<"Memo", " ", "Description">>, ""),
                    Row2(<<"Balance">>, "$5.00")}
              ELSE {Row2(<<"Balance">>, "--")})

\* The value a recognised row gives to constructor[constructor_key] (lines
\* 381-391), or the ValueError of the date parse.
TxValue(key, constructor_key, value) ==
    IF StartsWithDollar(value) THEN ToDecimal(value)
    ELSE IF value = "--" \/ (value = "" /\ key # <<"memo">>) THEN NoneV
    ELSE IF constructor_key = "date"
    THEN IF value = "Pending" THEN NoneV
         ELSE IF ParsesAsDate(value) THEN Val("date", value)
         ELSE Val("ValueError", value)
    ELSE Val("str", value)

\* transaction.date or now
Effective(transaction, now) ==
    IF transaction.date = NoneV THEN now ELSE Day(transaction.date.v)

\* (a lower bound that never ends the reading)
BeforeSince_never(eff, since) == FALSE
\* (transaction.date or now) < since
BeforeSince(eff, since) == eff < since
\* (a window without its upper bound)
InWindow_open(eff, since, through) == eff >= since
\* through >= (transaction.date or now) >= since
InWindow(eff, since, through) == through >= eff /\ eff >= since

\* self.transaction_class(**constructor): the fields of the class only
Transaction(class, constructor) ==
    [f \in Fields(class) |-> constructor[f]]

\* The locals of transactions; an argument left out is <<>>, a date given
\* is <<day>>.  void records the fields whose cell, in the block being read,
\* held "--" or nothing.
TxArgs(class, since, through, maxpages, now) ==
    [class |-> class,
     through |-> IF through = <<>> THEN THROUGH_DEFAULT ELSE through[1],
     since |-> IF since = <<>> THEN SINCE_DEFAULT ELSE since[1],
     given |-> [since |-> since # <<>>, through |-> through # <<>>],
     now |-> now, maxpages |-> maxpages, asked |-> maxpages,
     constructor |-> constructor_defaults(class), extra |-> FALSE,
     fetched |-> 0, rules |-> 0, end |-> "", void |-> {},
     assembled |-> <<>>]

\* (a loop that fetches once more when maxpages has run out)
tx_page_once_more ==
    /\ pc = "tx_loop"
    /\ IF loc.maxpages >= 0
       THEN /\ CallNavigate("history", "tx_tables")
            /\ loc' = [loc EXCEPT !.maxpages = @ - 1, !.fetched = @ + 1]
       ELSE /\ pc' = "returned"
            /\ loc' = [loc EXCEPT !.end = "maxpages"]
            /\ UNCHANGED <<nav, err>>
    /\ UNCHANGED <<op, retval, contents, lg, cookie, out, checked, last>>

\* while maxpages: maxpages -= 1; self.agent.navigate(page)
tx_page ==
    /\ pc = "tx_loop"
    /\ IF loc.maxpages # 0
       THEN /\ CallNavigate("history", "tx_tables")
            /\ loc' = [loc EXCEPT !.maxpages = @ - 1, !.fetched = @ + 1]
       ELSE /\ pc' = "returned"
            /\ loc' = [loc EXCEPT !.end = "maxpages"]
            /\ UNCHANGED <<nav, err>>
    /\ UNCHANGED <<op, retval, contents, lg, cookie, out, checked, last>>

\* tables = soup.find_all('table'); the second of exactly two is read
tx_tables ==
    /\ pc = "tx_tables"
    /\ IF contents.tables # 2
       THEN Raise(Exc("ValueError", "Expected 2 tables")) /\ loc' = loc
       ELSE /\ pc' = "tx_rows"
            /\ loc' = loc
            /\ err' = err
    /\ UNCHANGED <<op, retval, contents, nav, lg, cookie, out, checked, last>>

\* One turn of `for row in table.find_all('tr')`, on the next row of the
\* table.
tx_row ==
    /\ pc = "tx_rows"
    /\ \E row \in IF loc.rules < MaxRules THEN TxRowsOf(loc.class)
                  ELSE TxRowsOf(loc.class) \ {HrRow} :
         LET c == loc.constructor
             l == [loc EXCEPT !.rules = IF row.hr THEN @ + 1 ELSE @] IN
         CASE row.cols = 1 /\ c.name = NoneV ->
                \* constructor['name'] = re.sub('\s+', ' ', rowtext)
                /\ loc' = [l EXCEPT !.constructor.name = Val("str", row.text)]
                /\ UNCHANGED <<pc, err, out>>
           [] row.cols = 1 /\ c.name # NoneV /\ row.hr ->
                IF loc.extra
                THEN /\ Raise(Exc("TypeError", "unexpected keyword argument"))
                     /\ loc' = l
                     /\ out' = out
                ELSE LET t == Transaction(loc.class, c)
                         eff == Effective(t, loc.now) IN
                     IF BeforeSince(eff, loc.since)
                     THEN /\ pc' = "returned"
                          /\ loc' = [l EXCEPT !.end = "since",
                                       !.assembled = Append(@, t)]
                          /\ UNCHANGED <<err, out>>
                     ELSE /\ out' = IF InWindow(eff, loc.since, loc.through)
                                    THEN Append(out, t) ELSE out
                          /\ loc' = [l EXCEPT
                                       !.constructor =
                                           constructor_defaults(loc.class),
                                       !.void = {},
                                       !.assembled = Append(@, t)]
                          /\ UNCHANGED <<pc, err>>
           [] row.cols = 1 /\ c.name # NoneV /\ ~row.hr ->
                /\ loc' = l
                /\ UNCHANGED <<pc, err, out>>
           [] row.cols = 2 ->
                LET key == wordize(row.left)
                    constructor_key == row_key_map(key)
                    value == TxValue(key, constructor_key, row.right) IN
                IF constructor_key = None
                THEN loc' = l /\ UNCHANGED <<pc, err, out>>
                ELSE IF value.t = "ValueError"
                THEN /\ Raise(Exc("ValueError", "date"))
                     /\ loc' = l
                     /\ out' = out
                ELSE /\ loc' = [l EXCEPT
                                  !.constructor[constructor_key] = value,
                                  !.extra = @ \/ constructor_key
                                                   \notin Fields(loc.class),
                                  !.void =
                                      IF row.right \in {"", "--"}
                                      THEN @ \cup {constructor_key}
                                      ELSE @ \ {constructor_key}]
                     /\ UNCHANGED <<pc, err, out>>
           [] OTHER ->
                \* left_column, right_column = columns
                /\ Raise(Exc("ValueError", "unpack"))
                /\ loc' = l
                /\ out' = out
    /\ UNCHANGED <<op, retval, contents, nav, lg, cookie, checked, last>>

\* After the last row: page = soup.find(text='Next').parent['href'], or the
\* end of the sequence when there is no such link.  A page of the history
\* holds whole transactions: it ends after a rule row.
tx_next ==
    /\ pc = "tx_rows"
    /\ loc.constructor = constructor_defaults(loc.class)
    /\ loc.void = {}
    /\ IF contents.next
       THEN pc' = "tx_loop" /\ loc' = loc
       ELSE pc' = "returned" /\ loc' = [loc EXCEPT !.end = "nonext"]
    /\ UNCHANGED <<op, err, retval, contents, nav, lg, cookie, out, checked,
                   last>>

TxNext == tx_page \/ tx_tables \/ tx_row \/ tx_next

----------------------------------------------------------------------------
(* ChaseCreditAccount.pay_from *)


\* The page after a submission of the payment workflow.
PayStepPages ==
    {[BlankPage EXCEPT !.of = "pay_step", !.coaching = b, !.ctl = c,
                       !.tables = tt[1], !.total = tt[2], !.step = st] :
        b \in Banners, c \in BOOLEAN,
        tt \in {<<1, TRUE>>, <<1, FALSE>>, <<2, TRUE>>},
        st \in {"none", "4of4"}}

\* Decimal(usd[1:]) of the last word of the "Total payment amount:" row
ScrapedTotal == [t |-> "decimal", v |-> "5.00"]
\* the local `payment` before any assignment
Unbound == [t |-> "unbound", v |-> ""]

PayArgs(other, amount, has_url) ==
    [other |-> other, amount |-> amount, has_url |-> has_url, navs |-> 0,
     submits |-> 0, checks |-> 0, filled |-> FALSE, payment |-> Unbound]

\* The argument checks, then self.agent.navigate(self.payment_url);
\* payment_url is a scraped attribute, an AttributeError when absent.
pay_from_args ==
    /\ pc = "pay_from"
    /\ IF loc.other # "debit"
       THEN Raise(Exc("TypeError", "other")) /\ UNCHANGED <<nav, loc>>
       ELSE IF loc.amount \notin payopts /\ ~IsNumber(loc.amount)
       THEN Raise(Exc("ValueError", "number")) /\ UNCHANGED <<nav, loc>>
       ELSE IF ~loc.has_url
       THEN Raise(Exc("AttributeError", "payment_url")) /\ UNCHANGED <<nav, loc>>
       ELSE /\ CallNavigate("payment", "pay_link")
            /\ loc' = [loc EXCEPT !.navs = @ + 1]
    /\ UNCHANGED <<op, retval, contents, lg, cookie, out, checked, last>>

\* (mutant) the funding page is opened whether or not the link was found
pay_from_link_unchecked ==
    /\ pc = "pay_link"
    /\ CallNavigate("fund", "pay_options")
    /\ loc' = [loc EXCEPT !.navs = @ + 1]
    /\ UNCHANGED <<op, retval, contents, lg, cookie, out, checked, last>>

\* match = soup.find('a', text=regex); navigate(match['href']) or ValueError
pay_from_link ==
    /\ pc = "pay_link"
    /\ IF contents.link
       THEN /\ CallNavigate("fund", "pay_options")
            /\ loc' = [loc EXCEPT !.navs = @ + 1]
       ELSE /\ Raise(Exc("ValueError", "cannot be used for payment"))
            /\ UNCHANGED <<nav, loc>>
    /\ UNCHANGED <<op, retval, contents, lg, cookie, out, checked, last>>

\* The scan of the payment options, the choice of the radio button and, for
\* a number, the Amount field, which is filled before payment_type_map[None]
\* is looked up.
pay_from_select ==
    /\ pc = "pay_options"
    /\ IF contents.options = {}
       THEN Raise(Exc("Exception", "payment options")) /\ loc' = loc
       ELSE IF ~contents.ctl
       THEN Raise(Exc("LookupError", "PaymentOptionId")) /\ loc' = loc
       ELSE IF loc.amount \notin payopts
       THEN /\ loc' = [loc EXCEPT !.filled = TRUE]
            /\ IF "other" \in payment_type_map(contents)
               THEN pc' = "pay_submit" /\ err' = err
               ELSE Raise(Exc("KeyError", "None"))
       ELSE /\ loc' = loc
            /\ IF loc.amount \in payment_type_map(contents)
               THEN pc' = "pay_submit" /\ err' = err
               ELSE Raise(Exc("ValueError", "payment type"))
    /\ UNCHANGED <<op, retval, contents, nav, lg, cookie, out, checked, last>>

\* self.agent.browser.getControl(name='Submit').click(), three times
pay_from_submit ==
    /\ pc = "pay_submit"
    /\ IF contents.ctl
       THEN /\ \E p \in PayStepPages : Load(p, "submit", "payment")
            /\ loc' = [loc EXCEPT !.submits = @ + 1]
            /\ pc' = "pay_check"
            /\ err' = err
       ELSE /\ Raise(Exc("LookupError", "Submit"))
            /\ UNCHANGED <<contents, checked, cookie, last, loc>>
    /\ UNCHANGED <<op, retval, nav, lg, out>>

\* (mutant) no check_for_errors() after a submission, and no scrape
pay_from_check_skipped ==
    /\ pc = "pay_check"
    /\ loc' = [loc EXCEPT !.checks = @ + 1]
    /\ IF loc.submits = 3
       THEN IF contents.step # "4of4"
            THEN Raise(Exc("Exception", "Unknown problem"))
            ELSE pc' = "returned" /\ err' = err
       ELSE pc' = "pay_submit" /\ err' = err
    /\ UNCHANGED <<op, retval, contents, nav, lg, cookie, out, checked, last>>

\* self.agent.check_for_errors() after each submission; after the first one
\* the total is scraped when a policy was asked for; after the third one
\* the step indicator is tested and `payment` is returned.
pay_from_check ==
    /\ pc = "pay_check"
    /\ IF check_for_errors(contents) = "raise"
       THEN Raise(BankingError) /\ UNCHANGED <<loc, checked, retval>>
       ELSE
         /\ checked' = TRUE
         /\ CASE loc.submits = 1 /\ loc.amount \in payopts ->
                   IF contents.tables # 1
                   THEN /\ Raise(Exc("ValueError", "Expected 1 table"))
                        /\ loc' = [loc EXCEPT !.checks = @ + 1]
                        /\ retval' = retval
                   ELSE IF ~contents.total
                   THEN /\ Raise(Exc("Exception", "total payment amount"))
                        /\ loc' = [loc EXCEPT !.checks = @ + 1]
                        /\ retval' = retval
                   ELSE /\ loc' = [loc EXCEPT !.checks = @ + 1,
                                              !.payment = ScrapedTotal]
                        /\ pc' = "pay_submit"
                        /\ UNCHANGED <<err, retval>>
              [] loc.submits = 3 ->
                   /\ loc' = [loc EXCEPT !.checks = @ + 1]
                   /\ IF contents.step # "4of4"
                      THEN Raise(Exc("Exception", "Unknown problem"))
                           /\ retval' = retval
                      ELSE IF loc.payment = Unbound
                      THEN Raise(Exc("UnboundLocalError", "payment"))
                           /\ retval' = retval
                      ELSE /\ pc' = "returned"
                           /\ retval' = loc.payment
                           /\ err' = err
              [] OTHER ->
                   /\ loc' = [loc EXCEPT !.checks = @ + 1]
                   /\ pc' = "pay_submit"
                   /\ UNCHANGED <<err, retval>>
    /\ UNCHANGED <<op, contents, nav, lg, cookie, out, last>>

PayNext ==
    \/ pay_from_args \/ pay_from_link \/ pay_from_select
    \/ pay_from_submit \/ pay_from_check

----------------------------------------------------------------------------
(* ChaseDebitAccount.transfer_to *)

\* decimal.Decimal(amount) succeeds
IsDecimal(a) == a = "25.00"

\* The page after a submission of the transfer workflow; verify: 'Verify'
\* is in its URL.
TransferStepPages ==
    {[BlankPage EXCEPT !.of = "transfer_step", !.coaching = b, !.ctl = c,
                       !.verify = v, !.step = st] :
        b \in Banners, c \in BOOLEAN, v \in BOOLEAN, st \in {"none", "5of5"}}

TransferArgs(other, amount, date, has_url) ==
    [other |-> other, amount |-> amount, date |-> date, has_url |-> has_url,
     navs |-> 0, details |-> 0, confirms |-> 0]

\* The argument checks, then navigate(self.transfer_from_url)
transfer_to_args ==
    /\ pc = "transfer_to"
    /\ IF loc.other # "debit"
       THEN Raise(Exc("TypeError", "other")) /\ UNCHANGED <<nav, loc>>
       ELSE IF ~IsDecimal(loc.amount)
       THEN Raise(Exc("ValueError", "number")) /\ UNCHANGED <<nav, loc>>
       ELSE IF ~loc.has_url
       THEN Raise(Exc("AttributeError", "transfer_from_url"))
            /\ UNCHANGED <<nav, loc>>
       ELSE /\ CallNavigate("transfer", "transfer_link")
            /\ loc' = [loc EXCEPT !.navs = @ + 1]
    /\ UNCHANGED <<op, retval, contents, lg, cookie, out, checked, last>>

\* the link whose URL holds toId=<other.id_>, and navigate(url)
transfer_to_link ==
    /\ pc = "transfer_link"
    /\ IF contents.link
       THEN /\ CallNavigate("transfer_form", "transfer_details")
            /\ loc' = [loc EXCEPT !.navs = @ + 1]
       ELSE /\ Raise(Exc("ValueError", "not in available transfers list"))
            /\ UNCHANGED <<nav, loc>>
    /\ UNCHANGED <<op, retval, contents, lg, cookie, out, checked, last>>

\* getForm(action=...), the fields, getControl(name='Next').click()
transfer_to_details ==
    /\ pc = "transfer_details"
    /\ IF contents.ctl
       THEN /\ \E p \in TransferStepPages : Load(p, "submit", "details")
            /\ loc' = [loc EXCEPT !.details = @ + 1]
            /\ pc' = "transfer_verify"
            /\ err' = err
       ELSE /\ Raise(Exc("LookupError", "transfer form"))
            /\ UNCHANGED <<contents, checked, cookie, last, loc>>
    /\ UNCHANGED <<op, retval, nav, lg, out>>

\* (mutant) the URL of the page after the details is not tested
transfer_to_verify_any_url ==
    /\ pc = "transfer_verify"
    /\ IF check_for_errors(contents) = "raise"
       THEN Raise(BankingError) /\ checked' = checked
       ELSE checked' = TRUE /\ pc' = "transfer_confirm" /\ err' = err
    /\ UNCHANGED <<op, retval, contents, nav, lg, cookie, loc, out, last>>

\* check_for_errors(); 'Verify' in self.agent.browser.url
transfer_to_verify ==
    /\ pc = "transfer_verify"
    /\ IF check_for_errors(contents) = "raise"
       THEN Raise(BankingError) /\ checked' = checked
       ELSE /\ checked' = TRUE
            /\ IF contents.verify
               THEN pc' = "transfer_confirm" /\ err' = err
               ELSE Raise(Exc("ValueError", "Unexpected URL"))
    /\ UNCHANGED <<op, retval, contents, nav, lg, cookie, loc, out, last>>

\* getControl('Submit').click()
transfer_to_confirm ==
    /\ pc = "transfer_confirm"
    /\ IF contents.ctl
       THEN /\ \E p \in TransferStepPages : Load(p, "submit", "confirmation")
            /\ loc' = [loc EXCEPT !.confirms = @ + 1]
            /\ pc' = "transfer_final"
            /\ err' = err
       ELSE /\ Raise(Exc("LookupError", "Submit"))
            /\ UNCHANGED <<contents, checked, cookie, last, loc>>
    /\ UNCHANGED <<op, retval, nav, lg, out>>

\* (mutant) the step indicator of the final page is not tested
transfer_to_final_untested ==
    /\ pc = "transfer_final"
    /\ IF check_for_errors(contents) = "raise"
       THEN Raise(BankingError) /\ checked' = checked
       ELSE checked' = TRUE /\ pc' = "returned" /\ err' = err
    /\ UNCHANGED <<op, retval, contents, nav, lg, cookie, loc, out, last>>

\* check_for_errors(); 'Step 5 of 5' in self.agent.browser.contents
transfer_to_final ==
    /\ pc = "transfer_final"
    /\ IF check_for_errors(contents) = "raise"
       THEN Raise(BankingError) /\ checked' = checked
       ELSE /\ checked' = TRUE
            /\ IF contents.step = "5of5"
               THEN pc' = "returned" /\ err' = err
               ELSE Raise(Exc("Exception", "Unknown problem"))
    /\ UNCHANGED <<op, retval, contents, nav, lg, cookie, loc, out, last>>

TransferNext ==
    \/ transfer_to_args \/ transfer_to_link \/ transfer_to_details
    \/ transfer_to_verify \/ transfer_to_confirm \/ transfer_to_final

----------------------------------------------------------------------------
(* ChaseBankAccount: __init__, __setattr__, attribute lookup *)

\* The name of an attribute and a key of the attribute mapping are token
\* sequences, as wordize returns them.
NoAttributes == [k \in {} |-> NoneV]
available_credit == <<"available", "_", "credit">>
transfer_from_url == <<"transfer", "_", "from", "_", "url">>
payment_url == <<"payment", "_", "url">>
rewards_program == <<"rewards", "_", "program">>
rewards_program_url == <<"rewards", "_", "program", "_", "url">>

\* attributes[key] = value
Put(attributes, key, value) == (key :> value) @@ attributes

\* An object before __init__ has assigned anything: has says whether the
\* instance has an attribute called attributes, dict holds the other
\* attributes of the instance.
NewObject(class) ==
    [class |-> class, has |-> FALSE, attributes |-> NoAttributes,
     dict |-> NoAttributes]

\* ChaseBankAccount.__setattr__: ok is FALSE when it raises TypeError.
ChaseBankAccount_setattr(self, name, value) ==
    IF name = <<"attributes">>
    THEN [ok |-> TRUE,
          self |-> [self EXCEPT !.has = TRUE, !.attributes = value]]
    ELSE IF ~self.has
    THEN [ok |-> TRUE, self |-> [self EXCEPT !.dict = Put(@, name, value)]]
    ELSE IF name \in DOMAIN self.attributes
    THEN [ok |-> FALSE, self |-> self]
    ELSE [ok |-> TRUE, self |-> [self EXCEPT !.dict = Put(@, name, value)]]

\* The assignments of __init__ after the first, in order, up to the first
\* that raises.
RECURSIVE AssignAll(_, _)
AssignAll(r, pairs) ==
    IF pairs = <<>> \/ ~r.ok THEN r
    ELSE AssignAll(ChaseBankAccount_setattr(r.self, Head(pairs)[1],
                                            Head(pairs)[2]),
                   Tail(pairs))

\* ChaseBankAccount.__init__(agent, name, url, id_, attributes)
ChaseBankAccount_init(class, name, url, id_, attributes) ==
    AssignAll(ChaseBankAccount_setattr(NewObject(class), <<"attributes">>,
                                       attributes),
              << <<<<"agent">>, Val("agent", "")>>,
                 <<<<"name">>, Val("str", name)>>,
                 <<<<"url">>, Val("str", url)>>,
                 <<<<"id", "_">>, Val("str", id_)>>  >>)

ReadOnly == Exc("TypeError", "read-only")

\* Reading self.<name>: the instance's own attribute if it has one, else
\* ChaseBankAccount.__getattr__ (the names read here are no attribute of the
\* class).
ChaseBankAccount_getattr(self, name) ==
    IF name \in DOMAIN self.dict THEN self.dict[name]
    ELSE IF name \in DOMAIN self.attributes THEN self.attributes[name]
    ELSE Val("AttributeError", "not found")

\* The mappings and names a caller constructs, assigns and reads.
Mappings ==
    {NoAttributes,
     Put(NoAttributes, available_credit, Val("decimal", "5.00")),
     Put(NoAttributes, <<"name">>, Val("str", "Joint"))}
AttrNames == {<<"attributes">>, available_credit, <<"name">>, <<"nickname">>}

AttrArgs(scraped, name) == [scraped |-> scraped, name |-> name]

\* class_(agent, name, url, id_, attributes)
call_ChaseBankAccount ==
    /\ pc = "idle"
    /\ \E class \in {"debit", "credit"}, attributes \in Mappings :
          LET r == ChaseBankAccount_init(class, "CHECKING", "detail", "a1",
                                         attributes) IN
          /\ loc' = AttrArgs(attributes, <<>>)
          /\ IF r.ok
             THEN pc' = "returned" /\ err' = NoErr /\ out' = <<r.self>>
             ELSE Raise(ReadOnly) /\ out' = <<>>
    /\ op' = "ChaseBankAccount"
    /\ retval' = None
    /\ UNCHANGED <<contents, nav, lg, cookie, checked, last>>

\* The operations on an account are made one after the other.
AttrOps == {"ChaseBankAccount", "setattr", "getattr"}

\* account.<name> = value
call_setattr ==
    /\ op \in AttrOps
    /\ pc \in {"returned", "raised"}
    /\ out # <<>>
    /\ \E name \in AttrNames :
         \E value \in IF name = <<"attributes">> THEN Mappings
                      ELSE {Val("str", "x")} :
            LET r == ChaseBankAccount_setattr(out[1], name, value) IN
            /\ loc' = [loc EXCEPT !.name = name]
            /\ out' = <<r.self>>
            /\ IF r.ok THEN pc' = "returned" /\ err' = NoErr
               ELSE Raise(ReadOnly)
    /\ op' = "setattr"
    /\ retval' = None
    /\ UNCHANGED <<contents, nav, lg, cookie, checked, last>>

\* account.<name>
call_getattr ==
    /\ op \in AttrOps
    /\ pc \in {"returned", "raised"}
    /\ out # <<>>
    /\ \E name \in AttrNames \ {<<"attributes">>} :
          LET v == ChaseBankAccount_getattr(out[1], name) IN
          /\ loc' = [loc EXCEPT !.name = name]
          /\ IF v.t = "AttributeError"
             THEN Raise(Exc("AttributeError", "not found")) /\ retval' = None
             ELSE pc' = "returned" /\ err' = NoErr /\ retval' = v
    /\ op' = "getattr"
    /\ UNCHANGED <<contents, nav, lg, cookie, checked, last, out>>

AttrNext == call_ChaseBankAccount \/ call_setattr \/ call_getattr

----------------------------------------------------------------------------
(* ChaseOnlineBankingAgent.accounts *)

\* The rows the accounts table may hold: the row that opens an account (an
\* id and a link), the rows of links, a row without id, the rule, the rows
\* of two cells, a row of header cells.
IdRow == Row1("a1", "detail", "CHECKING", FALSE)
FooterRow == Row1(None, None, "footer", FALSE)
TransferRow == Row1(None, "transfer", "Transfer Money", FALSE)
PayRow == Row1(None, "payment", "Pay Credit Card", FALSE)
RewardsRow == Row1(None, "CreditCardRewardDetails", "Rewards", FALSE)
AccPairs ==
    {Row2(<<"Available", " ", "Credit">>, "$5.00"),
     Row2(<<"Name">>, "Joint"),
     Row2(<<"Date">>, "01/02/2001"),
     Row2(<<"Date">>, "n/a")}
AccRows ==
    {IdRow, FooterRow, TransferRow, PayRow, RewardsRow, HrRow, HeaderRow}
    \cup AccPairs

\* The value of a right-hand cell (lines 266-274): a Decimal, a datetime, or
\* the text when it is neither or does not parse as a date.
AccValue(value) ==
    IF StartsWithDollar(value) THEN ToDecimal(value)
    ELSE IF HasSlash(value) /\ ParsesAsDate(value) THEN Val("date", value)
    ELSE Val("str", value)

NoConstructor == [set |-> FALSE, id_ |-> None, url |-> None, name |-> None]

\* The locals of accounts; block and blocks record the rows of the block
\* being read and of the blocks closed by a rule, grammar whether every row
\* read so far fits a table of well-formed blocks.
AccArgs ==
    [constructor |-> NoConstructor, attributes |-> NoAttributes, rows |-> 0,
     table |-> FALSE, end |-> "", grammar |-> TRUE, block |-> {},
     blocks |-> <<>>]

\* tables = soup.find_all('table'); exactly one is expected
acc_tables ==
    /\ pc = "acc_tables"
    /\ IF contents.tables # 1
       THEN Raise(Exc("ValueError", "Expected 1 table")) /\ loc' = loc
       ELSE /\ pc' = "acc_rows"
            /\ loc' = [loc EXCEPT !.table = TRUE]
            /\ err' = err
    /\ UNCHANGED <<op, retval, contents, nav, lg, cookie, out, checked, last>>

\* One turn of `for row in table.find_all('tr')`, on the next row of the
\* table.
acc_row ==
    /\ pc = "acc_rows"
    /\ loc.rows < MaxAccRows
    /\ \E row \in AccRows :
         LET c == loc.constructor
             l == [loc EXCEPT !.rows = @ + 1, !.block = @ \cup {row}]
             odd == [l EXCEPT !.grammar = FALSE] IN
         CASE row.cols = 1 /\ ~c.set ->
                IF row.id = None
                THEN \* no id: the end of the account rows
                     /\ pc' = "returned"
                     /\ loc' = [loc EXCEPT !.rows = @ + 1, !.end = "noid"]
                     /\ UNCHANGED <<err, out>>
                ELSE /\ loc' = [l EXCEPT !.constructor =
                                   [set |-> TRUE, id_ |-> row.id,
                                    url |-> row.href, name |-> row.text]]
                     /\ UNCHANGED <<pc, err, out>>
           [] row.cols = 1 /\ c.set /\ row = TransferRow ->
                /\ loc' = [l EXCEPT !.attributes =
                              Put(@, transfer_from_url, Val("str", row.href))]
                /\ UNCHANGED <<pc, err, out>>
           [] row.cols = 1 /\ c.set /\ row = PayRow ->
                /\ loc' = [l EXCEPT !.attributes =
                              Put(@, payment_url, Val("str", row.href))]
                /\ UNCHANGED <<pc, err, out>>
           [] row.cols = 1 /\ c.set /\ row = RewardsRow ->
                /\ loc' = [l EXCEPT !.attributes =
                              Put(Put(@, rewards_program,
                                      Val("str", row.text)),
                                  rewards_program_url, Val("str", row.href))]
                /\ UNCHANGED <<pc, err, out>>
           [] row.cols = 1 /\ c.set /\ row.hr ->
                LET class_ == IF available_credit \in DOMAIN loc.attributes
                              THEN "credit" ELSE "debit"
                    r == ChaseBankAccount_init(class_, c.name, c.url, c.id_,
                                               loc.attributes) IN
                IF r.ok
                THEN /\ out' = Append(out, r.self)
                     /\ loc' = [l EXCEPT !.constructor = NoConstructor,
                                         !.attributes = NoAttributes,
                                         !.block = {},
                                         !.blocks = Append(@, l.block)]
                     /\ UNCHANGED <<pc, err>>
                ELSE /\ Raise(ReadOnly)
                     /\ loc' = [l EXCEPT !.blocks = Append(@, l.block)]
                     /\ out' = out
           [] row.cols = 1 /\ c.set
                /\ row \in {IdRow, FooterRow} ->
                /\ loc' = odd
                /\ UNCHANGED <<pc, err, out>>
           [] row.cols = 2 ->
                LET key == wordize(row.left)
                    value == AccValue(row.right) IN
                /\ loc' = [(IF c.set THEN l ELSE odd) EXCEPT
                              !.attributes = Put(@, key, value)]
                /\ UNCHANGED <<pc, err, out>>
           [] OTHER ->
                \* left_column, right_column = columns
                /\ Raise(Exc("ValueError", "unpack"))
                /\ loc' = odd
                /\ out' = out
    /\ UNCHANGED <<op, retval, contents, nav, lg, cookie, checked, last>>

\* After the last row the generator ends.
acc_end ==
    /\ pc = "acc_rows"
    /\ pc' = "returned"
    /\ loc' = [loc EXCEPT !.end = "rows"]
    /\ UNCHANGED <<op, err, retval, contents, nav, lg, cookie, out, checked,
                   last>>

AccNext == acc_tables \/ acc_row \/ acc_end

----------------------------------------------------------------------------
(* The caller *)

\* ChaseOnlineBankingAgent.__init__ up to its call of navigate: the cookie
\* file is configured or not, and the accounts list is opened.
Init ==
    /\ pc = "navigate"
    /\ op = "__init__"
    /\ err = NoErr
    /\ retval = None
    /\ contents = BlankPage
    /\ nav = NavArgs("accounts", "idle")
    /\ lg = NoLogin
    /\ cookie \in {[file |-> f, written |-> FALSE, fresh |-> TRUE] : f \in BOOLEAN}
    /\ checked = FALSE
    /\ loc = NoLoc
    /\ out = <<>>
    /\ last = <<"none", "none">>

\* What every call of a public method starts from.
Fresh ==
    /\ err' = NoErr
    /\ retval' = None
    /\ checked' = FALSE
    /\ last' = <<"none", "none">>
    /\ out' = <<>>
    /\ cookie' = [cookie EXCEPT !.written = FALSE]

Urls == {"accounts", "detail"}

call_navigate ==
    /\ pc = "idle"
    /\ \E u \in Urls : nav' = NavArgs(u, "returned")
    /\ op' = "navigate"
    /\ pc' = "navigate"
    /\ Fresh
    /\ loc' = NoLoc
    /\ UNCHANGED <<contents, lg>>

call_pay_from ==
    /\ pc = "idle"
    /\ \E o \in {"debit", "credit"}, a \in Amounts, u \in BOOLEAN :
          loc' = PayArgs(o, a, u)
    /\ op' = "pay_from"
    /\ pc' = "pay_from"
    /\ Fresh
    /\ UNCHANGED <<contents, nav, lg>>

call_transfer_to ==
    /\ pc = "idle"
    /\ \E o \in {"debit", "credit"}, a \in {"25.00", "abc"},
          d \in {None, "date"}, u \in BOOLEAN :
          loc' = TransferArgs(o, a, d, u)
    /\ op' = "transfer_to"
    /\ pc' = "transfer_to"
    /\ Fresh
    /\ UNCHANGED <<contents, nav, lg>>

\* account.transactions(since, through, maxpages), and the first next() on
\* the generator, which takes datetime.datetime.now()
call_transactions ==
    /\ pc = "idle"
    /\ \E class \in {"debit", "credit"}, since \in {<<>>, <<2>>},
          through \in {<<>>, <<2>>}, maxpages \in 0..MaxPagesArg,
          now \in {Today} :
          loc' = TxArgs(class, since, through, maxpages, now)
    /\ op' = "transactions"
    /\ pc' = "tx_loop"
    /\ Fresh
    /\ UNCHANGED <<contents, nav, lg>>

\* agent.accounts, and the first next() on the generator
call_accounts ==
    /\ pc = "idle"
    /\ op' = "accounts"
    /\ loc' = AccArgs
    /\ CallNavigate("accounts", "acc_tables")
    /\ retval' = None
    /\ checked' = FALSE
    /\ last' = <<"none", "none">>
    /\ out' = <<>>
    /\ cookie' = [cookie EXCEPT !.written = FALSE]
    /\ UNCHANGED <<contents, lg>>

call_login ==
    /\ pc = "idle"
    /\ \E o \in OtpArgs, p \in {"stdin", "callback"} :
          lg' = LoginArgs("caller", o, p)
    /\ op' = "login"
    /\ pc' = "login"
    /\ Fresh
    /\ loc' = NoLoc
    /\ UNCHANGED <<contents, nav>>

LoginNext ==
    \/ login_open \/ login_submit \/ login_check \/ login_have
    \/ login_have_submit \/ login_request \/ login_deliver \/ login_prompt
    \/ login_otp_submit \/ login_finish

NavNext == navigate_open \/ navigate_return \/ LoginNext

Next == call_navigate \/ call_login \/ NavNext

Spec == Init /\ [][Next]_vars

NextTx == call_transactions \/ call_login \/ TxNext \/ NavNext
\* an agent constructed without a cookie file
InitNoFile == Init /\ ~cookie.file
SpecTx == InitNoFile /\ [][NextTx]_vars

NextAcc == call_accounts \/ call_login \/ AccNext \/ NavNext
SpecAcc == InitNoFile /\ [][NextAcc]_vars

NextAttr == call_login \/ AttrNext \/ NavNext
SpecAttr == Init /\ [][NextAttr]_vars

NextPay == call_pay_from \/ call_login \/ PayNext \/ NavNext
SpecPay == Init /\ [][NextPay]_vars

NextTransfer == call_transfer_to \/ call_login \/ TransferNext \/ NavNext
SpecTransfer == Init /\ [][NextTransfer]_vars

\* wordize(text) on its own: the text is any sequence of at most MaxLen
\* tokens in which no two words are adjacent (two adjacent words are one
\* word), and the one action applies the function to it.
Alphabet == {"Available", "Credit", "1", " ", ":", "-", "_"}

RECURSIVE TextsOf(_)
TextsOf(n) ==
    IF n = 0 THEN {<<>>}
    ELSE LET shorter == TextsOf(n - 1) IN
         shorter \cup
         {Append(t, c) : t \in {u \in shorter : Len(u) = n - 1}, c \in Alphabet}

Texts ==
    {t \in TextsOf(MaxLen) :
        \A i \in 1..(Len(t) - 1) : ~(IsAlnum(t[i]) /\ IsAlnum(t[i + 1]))}

InitWordize ==
    /\ pc = "wordize"
    /\ op = "wordize"
    /\ err = NoErr
    /\ retval = None
    /\ contents = BlankPage
    /\ nav = NoNav
    /\ lg = NoLogin
    /\ cookie = [file |-> FALSE, written |-> FALSE, fresh |-> TRUE]
    /\ checked = FALSE
    /\ loc \in {[text |-> t] : t \in Texts}
    /\ out = <<>>
    /\ last = <<"none", "none">>

\* return re.sub('\b_|_\b', '', re.sub('[^a-z0-9_-]+', '_', text.lower()))
call_wordize ==
    /\ pc = "wordize"
    /\ retval' = wordize(loc.text)
    /\ pc' = "returned"
    /\ UNCHANGED <<op, err, contents, nav, lg, cookie, checked, loc, out, last>>

NextWordize == call_wordize
SpecWordize == InitWordize /\ [][NextWordize]_vars

----------------------------------------------------------------------------
(* Properties of navigate *)

\* navigate has returned normally to the user (or to __init__) and nothing
\* has happened since: contents is what it returned.
NavigateReturned ==
    \/ op = "navigate" /\ pc = "returned"
    \/ op = "__init__" /\ pc = "idle"

\* C1 (as claimed): when navigate(url) ran the login procedure, the last
\* thing it did was to fetch url again, and what it returns is the page of
\* url.
C1_NavigateRefetches ==
    (NavigateReturned /\ nav.login) =>
        (last = <<"open", nav.url>> /\ contents.of = nav.url)

\* C2 (as claimed): every navigate that returns has run check_for_errors on
\* the page it returns, re-login or not, and that page carries no error
\* banner.
C2_NavigateAlwaysChecks ==
    NavigateReturned =>
        (checked /\ \A i \in DOMAIN contents.coaching :
                       contents.coaching[i] # "error")

\* C2 (amended): navigate has run check_for_errors on the page it returns
\* exactly when it re-logged in (the check is the last statement of login);
\* the page fetched by a navigate that did not log in is returned unchecked.
C2_NavigateChecksIffLogin ==
    NavigateReturned =>
        /\ checked <=> nav.login
        /\ nav.login => check_for_errors(contents) = "ok"

C2_Witness == NavigateReturned /\ nav.login /\ checked /\ op = "navigate"

----------------------------------------------------------------------------
(* Properties of pay_from *)

PayFromEnded == op = "pay_from" /\ pc \in {"returned", "raised"}

\* C3 (as claimed): for a valid amount, once the funding link and the
\* options were found, the three submissions were made, none was followed
\* by an error banner and the last page shows "Step 4 of 4", pay_from
\* returns, and it returns the scraped total when a policy was asked for.
C3_PayFromReturns ==
    (PayFromEnded /\ loc.submits = 3 /\ loc.checks = 3
        /\ contents.step = "4of4") =>
        (pc = "returned" /\ (loc.amount \in payopts => retval = ScrapedTotal))

NoFundingLink == Exc("ValueError", "cannot be used for payment")

\* C9: when the page pay_from got for the payment-initiation URL has no link
\* to the debit account, its next step raises the ValueError; that one
\* navigation is all that happened: no second page was opened, no amount
\* filled in, no form submitted.
C9_NoLinkNoSubmission ==
    [][(pc = "pay_link" /\ ~contents.link) =>
          /\ pc' = "raised" /\ err' = NoFundingLink
          /\ loc'.navs = 1 /\ loc'.submits = 0 /\ ~loc'.filled
          /\ contents' = contents /\ last' = last]_vars

C9_Witness ==
    /\ op = "pay_from" /\ pc = "raised" /\ err = NoFundingLink
    /\ ~contents.link /\ loc.navs = 1 /\ loc.submits = 0

----------------------------------------------------------------------------
(* Properties of transfer_to *)

UnknownProblem == Exc("Exception", "Unknown problem")

\* C10: transfer_to returns only from a final page that shows "Step 5 of
\* 5"; once the confirmation was submitted, a final page without banner
\* and without the indicator ends the call with the "Unknown problem"
\* exception, never with a return.
C10_ReturnOnlyAtStep5 ==
    (op = "transfer_to" /\ pc \in {"returned", "raised"}
        /\ loc.confirms = 1) =>
        /\ last = <<"submit", "confirmation">>
        /\ pc = "returned" <=>
              (check_for_errors(contents) = "ok" /\ contents.step = "5of5")
        /\ (check_for_errors(contents) = "ok" /\ contents.step # "5of5")
              => err = UnknownProblem

C10_Witness ==
    /\ op = "transfer_to" /\ pc = "raised" /\ err = UnknownProblem
    /\ loc.details = 1 /\ loc.confirms = 1 /\ contents.step = "none"
    /\ check_for_errors(contents) = "ok"

----------------------------------------------------------------------------
(* Properties of transactions *)

\* The effective day of a transaction record: the day of its date, or the
\* day of the call when it has none.
DayOf(t) ==
    IF t.date.t = "date"
    THEN IF t.date.v = "01/01/2001" THEN 1 ELSE 2
    ELSE loc.now

Yielded(t) == loc.since <= DayOf(t) /\ DayOf(t) <= loc.through

\* C4: every transaction yielded has its effective date inside
\* [since, through]; the transactions yielded are exactly the assembled ones
\* inside the window, so one before since is never yielded and one after
\* through is left out; the reading ends on a date only at a transaction
\* before since, never at one after through.
C4_YieldedInWindow ==
    op = "transactions" =>
        /\ \A i \in DOMAIN out : Yielded(out[i])
        /\ out = SelectSeq(loc.assembled, Yielded)
        /\ \A i \in DOMAIN loc.assembled :
              DayOf(loc.assembled[i]) > loc.through =>
                  ~(loc.end = "since" /\ i = Len(loc.assembled))

\* A transaction past through was left out and the next one was yielded.
C4_Witness ==
    /\ op = "transactions"
    /\ Len(loc.assembled) = 2
    /\ DayOf(loc.assembled[1]) > loc.through
    /\ DayOf(loc.assembled[2]) = loc.through
    /\ out = <<loc.assembled[2]>>

Descending(s) ==
    \A i, j \in DOMAIN s : i < j => DayOf(s[i]) >= DayOf(s[j])

AtOrAfterSince(t) == DayOf(t) >= loc.since

\* C5: in a call with since = d and no through, on a history in descending
\* order, every transaction read that is dated d or later is yielded, and the
\* first one dated before d ends the call: it is the last one assembled,
\* nothing after it is yielded and the generator has returned.
C5_SinceStops ==
    (op = "transactions" /\ loc.given.since /\ ~loc.given.through
        /\ Descending(loc.assembled)) =>
        /\ out = SelectSeq(loc.assembled, AtOrAfterSince)
        /\ \A i \in DOMAIN loc.assembled :
              DayOf(loc.assembled[i]) < loc.since =>
                  /\ i = Len(loc.assembled)
                  /\ pc = "returned"
                  /\ loc.end = "since"
                  /\ err = NoErr

\* The transaction dated d was yielded and the older one after it ended the
\* call.
C5_Witness ==
    /\ op = "transactions"
    /\ loc.given.since /\ ~loc.given.through
    /\ Len(loc.assembled) = 2
    /\ loc.assembled[1].date = Val("date", "01/02/2001")
    /\ loc.since = 2
    /\ loc.assembled[2].date = Val("date", "01/01/2001")
    /\ out = <<loc.assembled[1]>>
    /\ pc = "returned"

\* C6: a call never fetches more than maxpages pages; it ends because
\* maxpages ran out only after exactly maxpages fetches, and then normally;
\* a call that returns after a page with a Next link, not stopped by since,
\* has fetched exactly maxpages pages; a page without a Next link ends the
\* call normally.
C6_AtMostMaxpages ==
    op = "transactions" =>
        /\ loc.fetched <= loc.asked
        /\ loc.end = "maxpages" =>
              pc = "returned" /\ err = NoErr /\ loc.fetched = loc.asked
        /\ loc.end = "nonext" =>
              pc = "returned" /\ err = NoErr /\ ~contents.next
        /\ (pc = "returned" /\ loc.end # "since" /\ loc.fetched > 0
              /\ contents.next) =>
              loc.end = "maxpages" /\ loc.fetched = loc.asked

\* A history longer than maxpages: the last page fetched has a Next link.
C6_Witness ==
    /\ op = "transactions"
    /\ pc = "returned"
    /\ loc.end = "maxpages"
    /\ loc.asked = MaxPagesArg
    /\ loc.fetched = MaxPagesArg
    /\ contents.of = "history"
    /\ contents.next
    /\ Len(out) > 0

----------------------------------------------------------------------------
(* Properties of accounts and of the account objects *)

\* The keys a block of rows gives: the labels of its rows of two cells and
\* the keys of its rows of links.
Labels(block) == {wordize(r.left) : r \in {x \in block : x.cols = 2}}
LinkKeys(block) ==
    (IF TransferRow \in block THEN {transfer_from_url} ELSE {})
    \cup (IF PayRow \in block THEN {payment_url} ELSE {})
    \cup (IF RewardsRow \in block
          THEN {rewards_program, rewards_program_url} ELSE {})

\* C7: while the rows read make well-formed blocks, the extraction has not
\* raised, it has yielded one record for each block closed by a rule, in
\* order, a credit account exactly when the block has an available_credit
\* row, with the keys of its own block and no other.
C7_OneRecordPerBlock ==
    (op = "accounts" /\ loc.table /\ loc.grammar) =>
        /\ pc # "raised"
        /\ Len(out) = Len(loc.blocks)
        /\ \A i \in DOMAIN out :
              /\ out[i].class =
                    IF available_credit \in Labels(loc.blocks[i])
                    THEN "credit" ELSE "debit"
              /\ DOMAIN out[i].attributes =
                    Labels(loc.blocks[i]) \cup LinkKeys(loc.blocks[i])

\* C8: after construction every assignment to a name that is a key of the
\* scraped mapping raises, and every scraped attribute keeps, and reads as,
\* the value it was constructed with.
C8_WriteOnce ==
    (op \in {"setattr", "getattr"}) =>
        /\ (op = "setattr" /\ loc.name \in DOMAIN loc.scraped) =>
              pc = "raised" /\ err = ReadOnly
        /\ \A k \in DOMAIN loc.scraped :
              /\ k \in DOMAIN out[1].attributes
              /\ out[1].attributes[k] = loc.scraped[k]
        /\ (op = "getattr" /\ loc.name \in DOMAIN loc.scraped) =>
              pc = "returned" /\ retval = loc.scraped[loc.name]

----------------------------------------------------------------------------
(* Properties of check_for_errors *)

HasErrorBanner(page) ==
    \E i \in DOMAIN page.coaching : page.coaching[i] = "error"

\* C11: the Error Detector accepts a page exactly when the page carries no
\* coaching banner other than announcement links: a page it has accepted
\* holds no error banner, however many coaching elements it holds, and the
\* banking error is raised only on a page that does hold one.
C11_ErrorBannerRaises ==
    /\ checked => ~HasErrorBanner(contents)
    /\ (pc = "raised" /\ err = BankingError) => HasErrorBanner(contents)

----------------------------------------------------------------------------
(* Properties of login *)

\* The positions of login at which a step other than the Error Detector
\* comes next.
LoginActing ==
    {"login_have", "login_have_submit", "login_request", "login_deliver",
     "login_prompt", "login_otp_submit"}

\* C12: in login no step is taken on the page a submission produced before
\* the Error Detector has run on it: wherever login is about to act and the
\* last operation was a submission, the Error Detector accepts the page.
C12_CheckedAfterEverySubmission ==
    (pc \in LoginActing /\ last[1] = "submit") =>
        checked /\ check_for_errors(contents) = "ok"

\* C13: the auth_otp value submitted with the password is never the empty
\* string, and a login that goes from the prompt to its end without a code
\* has submitted no OTP form.
C13_OtpSubmittedNonEmpty ==
    /\ lg.sent # None => lg.sent # ""
    /\ (pc = "login_finish" /\ last[1] = "prompt") => lg.sent = None

----------------------------------------------------------------------------
(* Properties of the cookie file *)

\* C14: with a cookie file configured, a call of navigate that has returned
\* and a call of login that has returned have written the file after their
\* last fetch or submission (the file holds the cookie jar as it is); with
\* no cookie file nothing is ever written.
C14_CookiesSaved ==
    /\ (cookie.file /\ NavigateReturned) => cookie.written /\ cookie.fresh
    /\ (cookie.file /\ op = "login" /\ pc = "returned") =>
          cookie.written /\ cookie.fresh
    /\ ~cookie.file => ~cookie.written

\* A navigate that logged in again with a code has returned with the file
\* written.
C14_Witness ==
    /\ cookie.file /\ cookie.written /\ cookie.fresh
    /\ op = "navigate" /\ pc = "returned" /\ nav.login
    /\ last = <<"submit", "otp">>

----------------------------------------------------------------------------
(* Properties of the coercion of values *)

DateParseError == Exc("ValueError", "date")

\* C15: a value that holds "/" and does not parse as month/day/year is kept
\* as text and raises nothing: the reading of a transaction history never
\* ends with the ValueError of the date parse.
C15_UnparsedDateKept ==
    (op = "transactions" /\ pc = "raised") => err # DateParseError

\* C16: in the block being read, a recognised field whose cell holds "--" or
\* nothing has no value, except the memo, whose empty cell is kept as the
\* empty string.
C16_EmptyMemoKept ==
    op = "transactions" =>
        \A k \in loc.void :
            loc.constructor[k] =
                IF k = "memo" /\ "memo" \in Fields(loc.class)
                THEN Val("str", "") ELSE NoneV

----------------------------------------------------------------------------
(* Properties of wordize *)

\* C17 (as claimed): for every text, wordize returns a lower-case identifier
\* that neither starts nor ends with an underscore, in which nothing but
\* words and single underscores is left (every run of other characters
\* having become one underscore); "Available Credit:" gives
\* "available_credit"; and wordize of the result is the result.
C17_WordizeIdentifier ==
    (op = "wordize" /\ pc = "returned") =>
        LET w == retval IN
        /\ w # <<>> => w[1] # "_" /\ w[Len(w)] # "_"
        /\ \A i \in DOMAIN w : (IsAlnum(w[i]) /\ Lower(w[i]) = w[i]) \/ w[i] = "_"
        /\ \A i \in 1..(Len(w) - 1) : ~(w[i] = "_" /\ w[i + 1] = "_")
        /\ loc.text = <<"Available", " ", "Credit", ":">>
               => w = <<"available", "_", "credit">>
        /\ wordize(w) = w


----------------------------------------------------------------------------
(* Properties of the OTP challenge in login *)

\* The positions of login that follow the "Already Have" link and submit
\* the code passed in, and those that request delivery of a code, wait for
\* it and submit it.
HavePath == {"login_have", "login_have_submit"}
RequestPath ==
    {"login_request", "login_deliver", "login_prompt", "login_otp_submit"}

\* C18: the OTP path login takes depends only on the marker on the page
\* after the credentials and on the code passed in.  Without the marker
\* login goes straight to its end; with the marker and a code it follows
\* the "Already Have" link and submits the code, and never requests
\* delivery or waits for input; delivery is requested and a code awaited
\* only from the check of a page with the marker when no code was passed.
C18_OtpPathByMarkerAndCode ==
    [][/\ (pc = "login_check" /\ pc' # "raised") =>
             pc' = IF ~contents.otp THEN "login_finish"
                   ELSE IF Truthy(lg.otp) THEN "login_have"
                   ELSE "login_request"
       /\ (pc' \in HavePath \cup RequestPath /\ pc \notin HavePath \cup RequestPath)
             => pc = "login_check" /\ contents.otp
       /\ pc \in HavePath => pc' \in HavePath \cup {"login_finish", "raised"}
       /\ (pc' \in RequestPath /\ pc \notin RequestPath)
             => pc = "login_check" /\ contents.otp /\ ~Truthy(lg.otp)
       /\ (lg'.sent # lg.sent /\ pc \in HavePath) => lg'.sent = lg.otp
      ]_vars

\* login is on the "Already Have" page with the code it was given, about
\* to submit it with the password.
C18_Witness ==
    /\ pc = "login_have_submit"
    /\ last = <<"click", "already_have">>
    /\ lg.from = "caller" /\ lg.otp = "123456"


----------------------------------------------------------------------------
(* Properties of the submissions of transfer_to and pay_from *)

\* A call of the method is under way: loc holds its arguments and counters.
Running(method) == op = method /\ pc \notin {"idle", "returned", "raised"}

\* C19: in transfer_to the confirmation form is submitted only from the
\* page that followed the details form, after the error check passed on it
\* and 'Verify' was found in its URL; when the check finds a banner there,
\* or the URL has no 'Verify', the call raises and submits nothing more;
\* each of the two forms is submitted at most once in a call.
C19_ConfirmAfterVerifiedDetails ==
    [][Running("transfer_to") =>
         /\ loc'.details # loc.details =>
               /\ pc = "transfer_details"
               /\ loc.details = 0 /\ loc'.details = 1 /\ loc.confirms = 0
         /\ loc'.confirms # loc.confirms =>
               /\ pc = "transfer_confirm"
               /\ loc.confirms = 0 /\ loc'.confirms = 1 /\ loc.details = 1
               /\ last = <<"submit", "details">>
               /\ checked /\ check_for_errors(contents) = "ok"
               /\ contents.verify
         /\ (/\ pc = "transfer_verify"
             /\ check_for_errors(contents) = "raise" \/ ~contents.verify) =>
               pc' = "raised" /\ loc' = loc /\ contents' = contents
      ]_vars

\* transfer_to has submitted the details form and then the confirmation.
C19_Witness ==
    /\ op = "transfer_to" /\ pc = "transfer_final"
    /\ loc.details = 1 /\ loc.confirms = 1
    /\ last = <<"submit", "confirmation">>


\* C20: in pay_from each of the three submissions is followed by the error
\* check before the next one is made; when the check finds a banner after a
\* submission the call raises and submits nothing more; no more than three
\* submissions are made, one of each form; and the call returns only from
\* the check of the page after the third submission, when that page holds
\* "Step 4 of 4".
C20_SubmissionsChecked ==
    [][Running("pay_from") =>
         /\ loc'.submits # loc.submits =>
               /\ pc = "pay_submit"
               /\ loc.submits < 3 /\ loc'.submits = loc.submits + 1
               /\ loc.checks = loc.submits
               /\ loc.submits > 0 =>
                     /\ last = <<"submit", "payment">>
                     /\ checked /\ check_for_errors(contents) = "ok"
         /\ (pc = "pay_check" /\ check_for_errors(contents) = "raise") =>
               pc' = "raised" /\ loc' = loc /\ contents' = contents
         /\ pc' = "returned" =>
               /\ pc = "pay_check" /\ loc.submits = 3
               /\ last = <<"submit", "payment">>
               /\ check_for_errors(contents) = "ok"
               /\ contents.step = "4of4"
      ]_vars

\* pay_from has returned after its three submissions.
C20_Witness ==
    /\ op = "pay_from" /\ pc = "returned"
    /\ loc.submits = 3 /\ loc.checks = 3
    /\ contents.step = "4of4"


\* The key of payment_type_map the amount asks for: the policy itself, or
\* the key of the "Other amount" button for a number.
Wanted(amount) == IF amount \in payopts THEN amount ELSE "other"

\* C21 (as claimed): when the page of the payment options has no radio
\* button for what was asked (the label of the policy is missing, or a
\* number was passed and there is no "Other amount" button), the next step
\* of pay_from raises ValueError, with the Amount field not filled and no
\* form submitted.
C21_NoOptionIsUsageError ==
    [][(/\ op = "pay_from" /\ pc = "pay_options"
        /\ contents.options # {} /\ contents.ctl
        /\ Wanted(loc.amount) \notin payment_type_map(contents)) =>
          /\ pc' = "raised"
          /\ err'.type = "ValueError"
          /\ ~loc'.filled
          /\ loc'.submits = 0
      ]_vars


----------------------------------------------------------------------------
(* Properties of the session after navigate and of the cookie file *)

\* C22 (as claimed): what navigate returns is never the login form nor a
\* page of the OTP challenge, also when the login it ran asked for a code
\* and got an empty one.
C22_ReturnsAuthenticated ==
    NavigateReturned =>
        ~contents.auth_form /\ ~contents.otp /\ contents.of \notin {"login", "otp"}


\* C23 (as claimed): when login raises ChaseOnlineBankingError, after the
\* credentials or at its final check, the cookie file has not been written
\* since the call began.
C23_FailedLoginKeepsCookieFile ==
    (pc = "raised" /\ err = BankingError) => ~cookie.written


====
